---- MODULE Spec2Model ----
(***************************************************************************)
(* Two QCAlgorithm strategy scripts:                                       *)
(*   Algorithm.Python/_DualThrust.py        (DualThrustAlgorithm)          *)
(*   Algorithm.Python/_Mom_Based_Rotation.py                               *)
(*                      (CountryEquityIndexesMomentumAlgorithm)            *)
(* Each script is a set of callbacks the host framework invokes.  The host *)
(* (history, prices, indicator values, fills, scheduling) is the           *)
(* environment: its values are inputs drawn from bounded sets.             *)
(*                                                                         *)
(* Numbers.  Prices are integers (ticks).  The Dual Thrust triggers are    *)
(* floats open -/+ 0.5*range; they are kept in half ticks, so that the     *)
(* float value v is the integer 2*v (Halves).  SetHoldings targets are in  *)
(* percent (0.8 is 80).  The momentum rotation's target weight 1/n is kept *)
(* as its denominator n.                                                   *)
(***************************************************************************)
EXTENDS Integers, Sequences, FiniteSets

VARIABLES
    \* ---- DualThrustAlgorithm ----
    high, low, close,   \* self.high / self.low / self.close: the 4 daily bars read last
    currentopen,        \* self.currentopen (None until SetSignal)
    signalrange,        \* SetSignal's local signalrange of the last call (None before)
    selltrig, buytrig,  \* self.selltrig / self.buytrig in half ticks (None until SetSignal)
    price,              \* host: self.Portfolio[self.syl].Price
    holdings,           \* host: self.Portfolio[self.syl].Quantity (lots: <0 short, >0 long)
    orders,             \* the order calls issued by the last OnData call, in order
    raised,             \* OnData raised (comparison with None): the algorithm has stopped
    lastCall,           \* the callback the host invoked last ("host": the price moved since)
    \* ---- CountryEquityIndexesMomentumAlgorithm ----
    data,               \* self.data: symbol -> current value of its MOM indicator
    IsWarmingUp,        \* host: self.IsWarmingUp
    Invested,           \* host: the symbols s with self.Portfolio[s].Invested
    weight,             \* symbol -> n when its last SetHoldings target was 1/n, 0 when none or liquidated
    liquidated,         \* the symbols given to Liquidate by the last Rebalance call
    added,              \* added_symbols of the last Rebalance call (each got a SetHoldings)
    divError,           \* a Rebalance call raised ZeroDivisionError
    day,                \* host: trading days elapsed (the schedule fires once a day)
    barDelivered,       \* host: the indicators were updated since the last scheduled event
    changesThisMonth    \* Rebalance calls of the current calendar month that issued an order

dtVars == <<high, low, close, currentopen, signalrange, selltrig, buytrig,
            price, holdings, orders, raised, lastCall>>
momVars == <<data, IsWarmingUp, Invested, weight, liquidated, added, divError,
             day, barDelivered, changesThisMonth>>
vars == <<dtVars, momVars>>

(***************************************************************************)
(* Bounds                                                                  *)
(***************************************************************************)
MaxPrice == 2
Prices == 1..MaxPrice
\* The components of a daily bar lie on the lowest or the highest price level
BarLevels == {1, MaxPrice}

None == <<>>
Some(v) == <<v>>
Val(o) == o[1]

(***************************************************************************)
(* DualThrustAlgorithm                                                     *)
(***************************************************************************)
HistoryBars == 4
\* k1 = k2 = 0.5: one half
k1 == 1
k2 == 1
\* float(x) in half ticks
Halves(x) == 2 * x

\* Python max() / min() of a pandas column
RECURSIVE SeqMax(_), SeqMin(_)
SeqMax(s) ==
    IF Len(s) = 1 THEN s[1]
    ELSE LET m == SeqMax(Tail(s)) IN IF s[1] >= m THEN s[1] ELSE m
SeqMin(s) ==
    IF Len(s) = 1 THEN s[1]
    ELSE LET m == SeqMin(Tail(s)) IN IF s[1] <= m THEN s[1] ELSE m

\* A daily bar of the host: low <= close <= high
Bars == {b \in [high : BarLevels, low : BarLevels, close : BarLevels] :
            b.low <= b.close /\ b.close <= b.high}

Columns(bars) == [high  |-> [i \in 1..Len(bars) |-> bars[i].high],
                  low   |-> [i \in 1..Len(bars) |-> bars[i].low],
                  close |-> [i \in 1..Len(bars) |-> bars[i].close]]

\* self.History([syl], 4, Resolution.Daily): the 4 most recent daily bars.  The
\* event fires once every trading day, so after the first call the window has
\* moved by one bar: the oldest bar is gone and a new one is appended.
History(h, l, c) ==
    IF h = None
    THEN {Columns(bars) : bars \in [1..HistoryBars -> Bars]}
    ELSE {[high  |-> Append(Tail(h), b.high),
           low   |-> Append(Tail(l), b.low),
           close |-> Append(Tail(c), b.close)] : b \in Bars}

\* SignalRange with the comparison reversed (a fault): the smaller difference is kept
SignalRangeMin(h, l, c) ==
    LET HH == SeqMax(h)
        HC == SeqMax(c)
        LC == SeqMin(c)
        LL == SeqMin(l)
    IN  IF HH - LC <= HC - LL THEN HH - LC ELSE HC - LL

\* HH, HC, LC, LL and the range SetSignal derives from them
SignalRange(h, l, c) ==
    LET HH == SeqMax(h)
        HC == SeqMax(c)
        LC == SeqMin(c)
        LL == SeqMin(l)
    IN  IF HH - LC >= HC - LL THEN HH - LC ELSE HC - LL

\* SellTrig with the range added instead of subtracted (a fault)
SellTrigUpper(open, range) == Halves(open) + k1 * range

\* self.selltrig = float(self.currentopen) - float(k1) * signalrange
SellTrig(open, range) == Halves(open) - k1 * range

\* self.buytrig = float(self.currentopen) + float(k2) * signalrange
BuyTrig(open, range) == Halves(open) + k2 * range

SetSignal ==
    /\ ~raised
    /\ \E history \in History(high, low, close) :
          /\ high' = history.high
          /\ low' = history.low
          /\ close' = history.close
          /\ currentopen' = Some(price)
          /\ LET range == SignalRange(history.high, history.low, history.close) IN
                /\ signalrange' = Some(range)
                /\ selltrig' = Some(SellTrig(price, range))
                /\ buytrig' = Some(BuyTrig(price, range))
    /\ lastCall' = "SetSignal"
    /\ UNCHANGED <<price, holdings, orders, raised>>
    /\ UNCHANGED momVars

Liquidate == [op |-> "Liquidate", target |-> 0]
SetHoldings(t) == [op |-> "SetHoldings", target |-> t]

\* Trigger with the price compared with buytrig (a fault)
TriggerBuy(sell, buy) == buy

\* The trigger OnData compares the price with: self.selltrig in both tests
Trigger(sell, buy) == sell

\* OnDataOrders where going short liquidates a long position only, hold > 0 (a fault)
OnDataOrdersStrict(p, trig, hold) ==
    IF Halves(p) >= trig
    THEN IF hold >= 0
         THEN <<SetHoldings(80)>>
         ELSE <<Liquidate, SetHoldings(80)>>
    ELSE IF Halves(p) < trig
    THEN IF hold > 0
         THEN <<Liquidate, SetHoldings(-80)>>
         ELSE <<SetHoldings(-80)>>
    ELSE << >>

\* The calls OnData makes at price p, trigger trig (half ticks), quantity hold
OnDataOrders(p, trig, hold) ==
    IF Halves(p) >= trig
    THEN IF hold >= 0
         THEN <<SetHoldings(80)>>
         ELSE <<Liquidate, SetHoldings(80)>>
    ELSE IF Halves(p) < trig
    THEN IF hold >= 0
         THEN <<Liquidate, SetHoldings(-80)>>
         ELSE <<SetHoldings(-80)>>
    ELSE << >>

\* Host: the calls are filled in order; the quantity takes the sign of the target
RECURSIVE Fill(_, _)
Fill(hold, calls) ==
    IF calls = << >> THEN hold
    ELSE Fill(IF Head(calls).target > 0 THEN 1
              ELSE IF Head(calls).target < 0 THEN -1 ELSE 0,
              Tail(calls))

OnData ==
    /\ ~raised
    /\ \/ /\ selltrig = None
          \* price >= None raises TypeError
          /\ raised' = TRUE
          /\ UNCHANGED <<orders, holdings>>
       \/ /\ selltrig # None
          /\ orders' = OnDataOrders(price, Trigger(Val(selltrig), Val(buytrig)), holdings)
          /\ holdings' = Fill(holdings, orders')
          /\ UNCHANGED raised
    /\ lastCall' = "OnData"
    /\ UNCHANGED <<high, low, close, currentopen, signalrange, selltrig, buytrig, price>>
    /\ UNCHANGED momVars

\* Host: the security's price moves
PriceChange ==
    /\ ~raised
    /\ \E p \in Prices \ {price} : price' = p
    /\ lastCall' = "host"
    /\ UNCHANGED <<high, low, close, currentopen, signalrange, selltrig, buytrig,
                   holdings, orders, raised>>
    /\ UNCHANGED momVars

DualThrustInitialize ==
    /\ high = None /\ low = None /\ close = None
    /\ currentopen = None
    /\ signalrange = None
    /\ selltrig = None
    /\ buytrig = None
    /\ price \in Prices
    /\ holdings = 0
    /\ orders = << >>
    /\ raised = FALSE
    /\ lastCall = "Initialize"


(***************************************************************************)
(* CountryEquityIndexesMomentumAlgorithm                                   *)
(***************************************************************************)
\* self.symbols: the universe (the script lists 31 tickers), by position in the list
NumSymbols == 10
symbols == 1..NumSymbols
\* trading days modelled
MaxDays == 3
\* top = ...[:9]
TopN == 9

MomentumInitialize ==
    \* a MOM indicator that has no sample yet reads 0
    /\ data = [s \in symbols |-> 0]
    /\ IsWarmingUp = TRUE
    /\ Invested = {}
    /\ weight = [s \in symbols |-> 0]
    /\ liquidated = {}
    /\ added = << >>
    /\ divError = FALSE
    /\ day = 0
    /\ barDelivered = FALSE
    /\ changesThisMonth = 0

Range(seq) == {seq[i] : i \in 1..Len(seq)}

\* Host: the indicator values when the warm-up period has been fed.  Momentum
\* values are pairwise distinct; the symbols start ranked in list order.
FirstReading == [s \in symbols |-> s]

\* Host: the warm-up period is over
EndWarmUp ==
    /\ IsWarmingUp
    /\ IsWarmingUp' = FALSE
    /\ data' = FirstReading
    /\ UNCHANGED <<Invested, weight, liquidated, added, divError, day, barDelivered,
                   changesThisMonth>>
    /\ UNCHANGED dtVars

\* Host: a day's bars update the indicators; the momentum values of two symbols
\* that were next to each other in the ranking cross
DailyBars ==
    /\ ~IsWarmingUp
    /\ ~barDelivered
    /\ ~divError
    /\ day < MaxDays
    /\ barDelivered' = TRUE
    /\ \E s, t \in symbols :
          /\ data[t] = data[s] + 1
          /\ data' = [data EXCEPT ![s] = data[t], ![t] = data[s]]
    /\ UNCHANGED <<IsWarmingUp, Invested, weight, liquidated, added, divError, day,
                   changesThisMonth>>
    /\ UNCHANGED dtVars

\* pd.Series(self.data).sort_values(ascending = ...).index, as a list
RECURSIVE SortValues(_, _, _)
SortValues(d, S, ascending) ==
    IF S = {} THEN << >>
    ELSE LET first == CHOOSE s \in S : \A t \in S :
                         IF ascending THEN d[s] <= d[t] ELSE d[s] >= d[t]
         IN  <<first>> \o SortValues(d, S \ {first}, ascending)

\* seq[:n]
Slice(seq, n) == SubSeq(seq, 1, IF Len(seq) < n THEN Len(seq) ELSE n)

\* Top with the values sorted in ascending order (a fault)
TopAscending(d) == Slice(SortValues(d, DOMAIN d, TRUE), TopN)

\* top.index
Top(d) == Slice(SortValues(d, DOMAIN d, FALSE), TopN)

\* the first loop: the invested securities that are not in top.index
ToLiquidate(top, invested) == {s \in invested : s \notin Range(top)}

\* added_symbols: the symbols of top.index that are not invested, in top's order
AddedSymbols(top, invested) == SelectSeq(top, LAMBDA s : s \notin invested)

\* 1/len(added_symbols), as its denominator
Target(addedSyms) == Len(addedSyms)

\* DivisionRaises with the weight computed once, before the loop (a fault)
DivisionRaisesHoisted(addedSyms) == Len(addedSyms) = 0

\* 1/len(added_symbols) is evaluated once per pass of the last loop; it raises
\* ZeroDivisionError when it is evaluated with an empty list
DivisionRaises(addedSyms) == \E i \in 1..Len(addedSyms) : Len(addedSyms) = 0

\* if self.IsWarmingUp: return
WarmUpGuard(warming) == warming

\* The scheduled event of a trading day: DateRules.EveryDay("IVV"),
\* TimeRules.AfterMarketOpen("IVV") calls Rebalance.  monthStart: the day is
\* the first trading day of a calendar month.  Orders are filled at once.
Rebalance ==
    /\ ~divError
    /\ day < MaxDays
    /\ day' = day + 1
    /\ barDelivered' = FALSE
    /\ \E monthStart \in BOOLEAN :
        LET earlier == IF monthStart THEN 0 ELSE changesThisMonth IN
        \/ /\ WarmUpGuard(IsWarmingUp)
           /\ liquidated' = {}
           /\ added' = << >>
           /\ changesThisMonth' = earlier
           /\ UNCHANGED <<Invested, weight, divError>>
        \/ /\ ~WarmUpGuard(IsWarmingUp)
           /\ \E top \in {Top(data)} :
              \E sold \in {ToLiquidate(top, Invested)} :
              \E addedSyms \in {AddedSymbols(top, Invested \ sold)} :
                  /\ liquidated' = sold
                  /\ added' = addedSyms
                  /\ divError' = DivisionRaises(addedSyms)
                  /\ Invested' = IF divError' THEN Invested \ sold
                                 ELSE (Invested \ sold) \cup Range(addedSyms)
                  /\ weight' = [s \in symbols |->
                                   IF s \in Range(addedSyms) /\ ~divError'
                                   THEN Target(addedSyms)
                                   ELSE IF s \in sold THEN 0 ELSE weight[s]]
                  /\ changesThisMonth' =
                        IF sold # {} \/ addedSyms # << >> THEN earlier + 1 ELSE earlier
    /\ UNCHANGED <<data, IsWarmingUp>>
    /\ UNCHANGED dtVars

(***************************************************************************)
(* Specifications                                                          *)
(***************************************************************************)
Init == DualThrustInitialize /\ MomentumInitialize

DualThrustNext == SetSignal \/ OnData \/ PriceChange
SpecDualThrust == Init /\ [][DualThrustNext]_vars

RotationNext == EndWarmUp \/ DailyBars \/ Rebalance
SpecRotation == Init /\ [][RotationNext]_vars

(***************************************************************************)
(* Properties of DualThrustAlgorithm (SpecDualThrust)                      *)
(***************************************************************************)
Highest(seq) == CHOOSE x \in Range(seq) : \A y \in Range(seq) : y <= x
Lowest(seq) == CHOOSE x \in Range(seq) : \A y \in Range(seq) : x <= y
SetHoldingsCalls(calls) == SelectSeq(calls, LAMBDA o : o.op = "SetHoldings")
\* The position changes side in an OnData call made at the current state
Reversed ==
    \/ holdings < 0 /\ Halves(price) >= Val(selltrig)
    \/ holdings > 0 /\ Halves(price) < Val(selltrig)
\* A step that is an OnData call which did not raise
OnDataCall == lastCall' = "OnData" /\ ~raised'

\* C1: after every OnData call made once SetSignal has set selltrig, exactly one
\* SetHoldings call was issued and it is the last call: its target is +80% when
\* price >= selltrig and -80% otherwise, whatever the holdings and buytrig are.
C1_OnDataTarget ==
    (lastCall = "OnData" /\ selltrig # None) =>
        /\ Len(SetHoldingsCalls(orders)) = 1
        /\ orders[Len(orders)] =
              SetHoldings(IF Halves(price) >= Val(selltrig) THEN 80 ELSE -80)

\* C1 witness: OnData went long at a price between selltrig and buytrig
C1_Witness ==
    /\ lastCall = "OnData"
    /\ selltrig # None
    /\ Halves(price) >= Val(selltrig)
    /\ Halves(price) < Val(buytrig)
    /\ orders[Len(orders)] = SetHoldings(80)

\* C2: after every SetSignal the range is max(HH - LC, HC - LL) of the 4 bars read
C2_SignalRange ==
    signalrange # None =>
        LET a == Highest(high) - Lowest(close)
            b == Highest(close) - Lowest(low)
        IN  /\ Len(high) = HistoryBars
            /\ Val(signalrange) \in {a, b}
            /\ Val(signalrange) >= a
            /\ Val(signalrange) >= b

\* C2 witness: a history whose range is HC - LL, the larger of two different values
C2_Witness ==
    /\ signalrange # None
    /\ Highest(close) - Lowest(low) > Highest(high) - Lowest(close)
    /\ Val(signalrange) = Highest(close) - Lowest(low)

\* C3: after every SetSignal selltrig = currentopen - 0.5*range and
\* buytrig = currentopen + 0.5*range (here times 2), and for bars with
\* low <= close <= high selltrig <= currentopen <= buytrig
C3_Triggers ==
    selltrig # None =>
        /\ Val(selltrig) = 2 * Val(currentopen) - Val(signalrange)
        /\ Val(buytrig) = 2 * Val(currentopen) + Val(signalrange)
        /\ (\A i \in 1..Len(high) : low[i] <= close[i] /\ close[i] <= high[i]) =>
              /\ Val(selltrig) <= 2 * Val(currentopen)
              /\ 2 * Val(currentopen) <= Val(buytrig)

\* C3 witness: SetSignal ran on a history with a positive range
C3_Witness ==
    /\ selltrig # None
    /\ Val(signalrange) > 0
    /\ Val(selltrig) < 2 * Val(currentopen)
    /\ 2 * Val(currentopen) < Val(buytrig)

\* C8 as stated: in every OnData call, a reversal issues Liquidate before the
\* SetHoldings of the new side, and Liquidate is issued only on a reversal
C8_LiquidateOnlyOnReversal ==
    [][OnDataCall =>
          /\ Reversed => (Len(orders') = 2 /\ orders'[1] = Liquidate
                          /\ orders'[2].op = "SetHoldings")
          /\ Liquidate \in Range(orders') => Reversed]_vars

\* C8 amended: in every OnData call, Liquidate is issued exactly when the side
\* is reversed or a flat position goes short, and then it comes before the
\* SetHoldings of the new side
C8_LiquidateOnReversalOrFlatShort ==
    [][OnDataCall =>
          /\ Liquidate \in Range(orders') <=>
                (Reversed \/ (holdings = 0 /\ Halves(price) < Val(selltrig)))
          /\ Liquidate \in Range(orders') =>
                (Len(orders') = 2 /\ orders'[1] = Liquidate
                 /\ orders'[2].op = "SetHoldings")]_vars

\* C8 witness: OnData reversed a short position into a long one
C8_Witness ==
    /\ lastCall = "OnData"
    /\ holdings > 0
    /\ orders = <<Liquidate, SetHoldings(80)>>

(***************************************************************************)
(* Properties of CountryEquityIndexesMomentumAlgorithm (SpecRotation)      *)
(***************************************************************************)
\* The symbols fewer than TopN symbols beat
HighestMomentum == {s \in symbols : Cardinality({t \in symbols : data[t] > data[s]}) < TopN}
\* Sum of the target weights 1/weight[s] of the symbols of S, times 2520 = lcm(1..9)
RECURSIVE WeightSum(_)
WeightSum(S) ==
    IF S = {} THEN 0
    ELSE LET s == CHOOSE x \in S : TRUE IN (2520 \div weight[s]) + WeightSum(S \ {s})
\* A step that is a call of Rebalance
RebalanceCall == day' = day + 1

\* C4 as stated: at most one Rebalance per calendar month changes the portfolio
C4_OneChangePerMonth == changesThisMonth <= 1

\* C5: after every Rebalance outside warm-up the invested securities are exactly
\* the TopN symbols of highest momentum: the invested ones outside it were
\* liquidated and the ones of it not invested got a SetHoldings
C5_InvestedIsTop ==
    [][(RebalanceCall /\ ~IsWarmingUp) =>
          /\ Invested' = HighestMomentum
          /\ Cardinality(Invested') = TopN
          /\ liquidated' = Invested \ HighestMomentum
          /\ Range(added') = HighestMomentum \ Invested]_vars

\* C5 witness: a Rebalance replaced a held symbol, and TopN symbols are held
C5_Witness ==
    /\ Cardinality(Invested) = TopN
    /\ Invested = HighestMomentum
    /\ liquidated # {}
    /\ added # << >>

\* C6 as stated: the held securities all have the same target weight and the
\* target weights sum to at most 1
C6_EqualWeights ==
    /\ \A s, t \in Invested : weight[s] = weight[t]
    /\ WeightSum(Invested) <= 2520

\* C9: a Rebalance during warm-up issues no order and leaves the portfolio as it
\* was; a Rebalance that finds every top symbol invested issues no SetHoldings
\* and raises no ZeroDivisionError
C9_NoOrders ==
    [][RebalanceCall =>
          /\ IsWarmingUp =>
                /\ liquidated' = {}
                /\ added' = << >>
                /\ Invested' = Invested
                /\ weight' = weight
          /\ (~IsWarmingUp /\ HighestMomentum \subseteq Invested) =>
                /\ added' = << >>
                /\ ~divError']_vars

\* C9 witness: outside warm-up, a Rebalance found the top symbols held and
\* issued nothing
C9_Witness ==
    /\ ~IsWarmingUp
    /\ day >= 2
    /\ HighestMomentum \subseteq Invested
    /\ liquidated = {}
    /\ added = << >>

====
